---- MODULE Spec2Model ----
(***************************************************************************)
(* Model of mobile-poc-rs: the sensor data records (src/src/models),      *)
(* the mock providers (src/src/mocks) and the stateless SensorService     *)
(* (src/src/services).                                                     *)
(*                                                                         *)
(* Floating point.  An f32/f64 is a record [cls, v]: cls is "fin", "inf"   *)
(* or "nan"; a finite value is the integer v counted in units of 2^-19    *)
(* (the spacing of f32 between 16 and 32), an infinity has v = 1 or -1.   *)
(* Comparisons follow IEEE 754 (every comparison with NaN is false) and   *)
(* f32 addition rounds to 24 significant bits, ties to even.              *)
(***************************************************************************)
EXTENDS Integers, Sequences, FiniteSets

VARIABLES call, kinds

\* The calls of a caller to the service, the models and serde_json.
callVars == <<call, kinds>>

\* The wall clock and a caller of the mock providers: the record it got,
\* the validator's verdict on it, the clock reading it took afterwards, the
\* time the clock advanced in between and whether the clock was set back.
VARIABLES clock, mock, verdict, now, elapsed, setback

mockVars == <<clock, mock, verdict, now, elapsed, setback>>

VARIABLES owned, pending, result

callerVars == <<owned, pending, result>>

vars == <<callVars, mockVars, callerVars>>

\* Longest caller-owned sequence of networks.
MaxNetworks == 3

\* The wall clock runs from MinTicks before the epoch to MaxTicks after it,
\* in steps of half a second.
MaxTicks == 4

MinTicks == 2

MaxCallers == 2

TickMs == 1000 \div 2

----------------------------------------------------------------------------
\* Floating point values

Scale == 2^19

Fin(n) == [cls |-> "fin", v |-> n]

\* A whole number of units: i + q/4, for values with an exact binary form.
Q(i, q) == Fin(i * Scale + q * (Scale \div 4))

NaN == [cls |-> "nan", v |-> 0]

PInf == [cls |-> "inf", v |-> 1]

NInf == [cls |-> "inf", v |-> -1]

IsNaN(a) == a.cls = "nan"

IsFinite(a) == a.cls = "fin"

\* Position of a non-NaN value on the extended number line.
Huge == 2^30

Ord(a) == IF a.cls = "inf" THEN a.v * Huge ELSE a.v

FLt(a, b) == ~IsNaN(a) /\ ~IsNaN(b) /\ Ord(a) < Ord(b)

FLe(a, b) == ~IsNaN(a) /\ ~IsNaN(b) /\ Ord(a) <= Ord(b)

FGt(a, b) == FLt(b, a)

FGe(a, b) == FLe(b, a)

Abs(n) == IF n < 0 THEN -n ELSE n

FAbs(a) == [cls |-> a.cls, v |-> Abs(a.v)]

\* lo..=hi (RangeInclusive::contains) and lo..hi (Range::contains)
ContainsInclusive(lo, hi, a) == FLe(lo, a) /\ FLe(a, hi)

ContainsExclusive(lo, hi, a) == FLe(lo, a) /\ FLt(a, hi)

----------------------------------------------------------------------------
\* Results and errors (SensorError)

OkResult == [ok |-> TRUE, kind |-> "", msg |-> ""]

Err(kind, msg) == [ok |-> FALSE, kind |-> kind, msg |-> msg]

SensorErrorKinds ==
    {"NotAvailable", "PermissionDenied", "HardwareError", "PluginError", "DataError"}

\* mutant: a validation failure reported as another kind
DataErrorAsHardware(msg) == Err("HardwareError", msg)

DataError(msg) == Err("DataError", msg)

----------------------------------------------------------------------------
\* Records

AccelerometerData(x, y, z, timestamp, accuracy) ==
    [x |-> x, y |-> y, z |-> z, timestamp |-> timestamp, accuracy |-> accuracy]

MagnetometerData(x, y, z, heading, timestamp, accuracy) ==
    [x |-> x, y |-> y, z |-> z, heading |-> heading, timestamp |-> timestamp,
     accuracy |-> accuracy]

None == [some |-> FALSE, val |-> NaN]

Some(a) == [some |-> TRUE, val |-> a]

GpsData(latitude, longitude, altitude, accuracy, speed, timestamp) ==
    [latitude |-> latitude, longitude |-> longitude, altitude |-> altitude,
     accuracy |-> accuracy, speed |-> speed, timestamp |-> timestamp]

PressureData(pressure, timestamp) == [pressure |-> pressure, timestamp |-> timestamp]

TemperatureData(temperature, timestamp) ==
    [temperature |-> temperature, timestamp |-> timestamp]

WifiNetwork(ssid, bssid, signal_strength, frequency, security) ==
    [ssid |-> ssid, bssid |-> bssid, signal_strength |-> signal_strength,
     frequency |-> frequency, security |-> security]

----------------------------------------------------------------------------
\* SensorService: validation

MAX_ACCEL == Q(20, 0)

\* mutant: an axis of exactly 20.0 is rejected
validate_accelerometer_ge(data) ==
    IF \/ FGe(FAbs(data.x), MAX_ACCEL)
       \/ FGe(FAbs(data.y), MAX_ACCEL)
       \/ FGe(FAbs(data.z), MAX_ACCEL)
    THEN DataError("Acceleration value out of range")
    ELSE OkResult

validate_accelerometer(data) ==
    IF \/ FGt(FAbs(data.x), MAX_ACCEL)
       \/ FGt(FAbs(data.y), MAX_ACCEL)
       \/ FGt(FAbs(data.z), MAX_ACCEL)
    THEN DataError("Acceleration value out of range")
    ELSE OkResult

\* mutant: the longitude is not checked
validate_gps_latitude_only(data) ==
    IF ~ContainsInclusive(Q(-90, 0), Q(90, 0), data.latitude)
    THEN DataError("Invalid latitude")
    ELSE OkResult

validate_gps(data) ==
    IF ~ContainsInclusive(Q(-90, 0), Q(90, 0), data.latitude)
    THEN DataError("Invalid latitude")
    ELSE IF ~ContainsInclusive(Q(-180, 0), Q(180, 0), data.longitude)
         THEN DataError("Invalid longitude")
         ELSE OkResult

\* mutant: the upper end of the range is excluded
validate_pressure_exclusive(data) ==
    IF ~ContainsExclusive(Q(800, 0), Q(1100, 0), data.pressure)
    THEN DataError("Pressure out of range")
    ELSE OkResult

validate_pressure(data) ==
    IF ~ContainsInclusive(Q(800, 0), Q(1100, 0), data.pressure)
    THEN DataError("Pressure out of range")
    ELSE OkResult

\* mutant: the range of the comment (-40 to +85) instead of -50 to 100
validate_temperature_typical(data) ==
    IF ~ContainsInclusive(Q(-40, 0), Q(85, 0), data.temperature)
    THEN DataError("Temperature out of range")
    ELSE OkResult

validate_temperature(data) ==
    IF ~ContainsInclusive(Q(-50, 0), Q(100, 0), data.temperature)
    THEN DataError("Temperature out of range")
    ELSE OkResult

----------------------------------------------------------------------------
\* f32 arithmetic

\* Spacing, in units, of the f32 values around a magnitude of m units:
\* 24 significant bits.
RECURSIVE Quantum(_)
Quantum(m) == IF m < 2^24 THEN 1 ELSE 2 * Quantum(m \div 2)

\* Round to nearest, ties to even.
RoundF32(n) ==
    LET m == Abs(n)
        q == Quantum(m)
        lo == (m \div q) * q
        r == m - lo
        up == IF 2 * r > q \/ (2 * r = q /\ (lo \div q) % 2 = 1) THEN lo + q ELSE lo
    IN  IF n < 0 THEN -up ELSE up

\* An f32 literal or input: the f32 value nearest to n units.
F32(n) == Fin(RoundF32(n))

\* a + b in f32
FAdd(a, b) ==
    IF IsNaN(a) \/ IsNaN(b) THEN NaN
    ELSE IF a.cls = "inf" /\ b.cls = "inf" THEN (IF a.v = b.v THEN a ELSE NaN)
    ELSE IF a.cls = "inf" THEN a
    ELSE IF b.cls = "inf" THEN b
    ELSE Fin(RoundF32(a.v + b.v))

\* a % b in f32 (fmodf): exact, with the sign of a; b is finite and not zero.
FRem(a, b) ==
    IF a.cls # "fin" \/ IsNaN(b) THEN NaN
    ELSE IF a.v < 0 THEN Fin(-((-a.v) % Abs(b.v)))
    ELSE Fin(a.v % Abs(b.v))

D360 == Q(360, 0)

Zero == Q(0, 0)

----------------------------------------------------------------------------
\* models: utility functions

\* n / d to the nearest integer
RoundDiv(n, d) ==
    LET m == (2 * Abs(n) + d) \div (2 * d)
    IN  IF n < 0 THEN -m ELSE m

\* x.atan2(y).to_degrees() for the inputs of the model: the axes, the
\* diagonals, and directions a few units off north (|x| of one or two
\* units, y at least 1.0), where atan2(x, y) = x/y radians in f32 and
\* the degrees, 57.3 x/y, are given to the nearest unit.  Signed zeros are
\* not distinguished.

atan2_to_degrees(x, y) ==
    IF IsNaN(x) \/ IsNaN(y) THEN NaN
    ELSE IF x.v = 0 THEN (IF y.v >= 0 THEN Zero ELSE Q(180, 0))
    ELSE IF y.v = 0 THEN (IF x.v > 0 THEN Q(90, 0) ELSE Q(-90, 0))
    ELSE IF Abs(x.v) = Abs(y.v)
         THEN (IF y.v > 0 THEN (IF x.v > 0 THEN Q(45, 0) ELSE Q(-45, 0))
                          ELSE (IF x.v > 0 THEN Q(135, 0) ELSE Q(-135, 0)))
    ELSE Fin(RoundDiv(x.v * Scale * 573, y.v * 10))

calculate_heading(x, y) ==
    LET heading == atan2_to_degrees(x, y)
    IN  IF FLt(heading, Zero) THEN FAdd(heading, D360) ELSE heading

get_cardinal_direction(heading) ==
    LET normalized == FRem(FAdd(FRem(heading, D360), D360), D360)
    IN  IF ~ContainsExclusive(Q(22, 2), Q(337, 2), normalized) THEN "N"
        ELSE IF ContainsExclusive(Q(22, 2), Q(67, 2), normalized) THEN "NE"
        ELSE IF ContainsExclusive(Q(67, 2), Q(112, 2), normalized) THEN "E"
        ELSE IF ContainsExclusive(Q(112, 2), Q(157, 2), normalized) THEN "SE"
        ELSE IF ContainsExclusive(Q(157, 2), Q(202, 2), normalized) THEN "S"
        ELSE IF ContainsExclusive(Q(202, 2), Q(247, 2), normalized) THEN "SW"
        ELSE IF ContainsExclusive(Q(247, 2), Q(292, 2), normalized) THEN "W"
        ELSE IF ContainsExclusive(Q(292, 2), Q(337, 2), normalized) THEN "NW"
        ELSE "N"

----------------------------------------------------------------------------
\* SensorService: WiFi

\* i32::cmp
Cmp(a, b) == IF a < b THEN "Less" ELSE IF a = b THEN "Equal" ELSE "Greater"

\* mutant: the comparator with its operands the other way round
BySignalAscending(a, b) == Cmp(a.signal_strength, b.signal_strength)

\* the comparator of sort_wifi_by_signal
BySignal(a, b) == Cmp(b.signal_strength, a.signal_strength)

\* mutant: x goes in front of the elements it is equal to (not stable)
RECURSIVE InsertSortedUnstable(_, _)
InsertSortedUnstable(sorted, x) ==
    IF sorted = <<>> THEN <<x>>
    ELSE IF BySignal(Head(sorted), x) # "Less"
         THEN <<x>> \o sorted
         ELSE <<Head(sorted)>> \o InsertSortedUnstable(Tail(sorted), x)

\* slice::sort_by is a stable sort: x goes behind every element of the
\* sorted prefix that does not compare Greater than x.
RECURSIVE InsertSorted(_, _)
InsertSorted(sorted, x) ==
    IF sorted = <<>> THEN <<x>>
    ELSE IF BySignal(Head(sorted), x) = "Greater"
         THEN <<x>> \o sorted
         ELSE <<Head(sorted)>> \o InsertSorted(Tail(sorted), x)

RECURSIVE SortBy(_)
SortBy(s) ==
    IF s = <<>> THEN <<>>
    ELSE InsertSorted(SortBy(SubSeq(s, 1, Len(s) - 1)), s[Len(s)])

sort_wifi_by_signal(nets) == SortBy(nets)

\* mutant: the thresholds are exclusive
get_signal_description_exclusive(rssi) ==
    IF rssi > -50 THEN "Excellent"
    ELSE IF rssi > -60 THEN "Good"
    ELSE IF rssi > -70 THEN "Fair"
    ELSE "Weak"

get_signal_description(rssi) ==
    IF rssi >= -50 THEN "Excellent"
    ELSE IF rssi >= -60 THEN "Good"
    ELSE IF rssi >= -70 THEN "Fair"
    ELSE "Weak"

----------------------------------------------------------------------------
\* mocks

mock_wifi_networks ==
    << WifiNetwork("MyHomeWiFi", "00:11:22:33:44:55", -45, 2412, "WPA2"),
       WifiNetwork("Neighbor_5G", "AA:BB:CC:DD:EE:FF", -68, 5180, "WPA3"),
       WifiNetwork("CoffeeShop-Guest", "11:22:33:44:55:66", -52, 2437, "Open") >>

\* A decimal literal i.ffff to the nearest unit (sign is 1 or -1).
Dec4(sign, i, f) == Fin(sign * (i * Scale + RoundDiv(f * (Scale \div 16), 625)))

\* SystemTime::now().duration_since(UNIX_EPOCH).unwrap_or_default()
\* .as_millis(): the clock is in milliseconds since the epoch, negative
\* before it.
\* (mutant: a clock before the epoch gives a negative timestamp)
current_timestamp_signed(t) == t

current_timestamp(t) == IF t < 0 THEN 0 ELSE t

mock_accelerometer_at_rest(t) ==
    AccelerometerData(Zero, Dec4(1, 9, 8100), Zero, current_timestamp(t), 3)

mock_accelerometer_shaking(t) ==
    AccelerometerData(Dec4(1, 2, 5000), Dec4(1, 8, 3000), Dec4(-1, 1, 2000),
                      current_timestamp(t), 3)

mock_magnetometer_north(t) ==
    MagnetometerData(Zero, Q(50, 0), Q(20, 0), Zero, current_timestamp(t), 3)

mock_magnetometer_southwest(t) ==
    MagnetometerData(Q(-35, 0), Q(-35, 0), Q(20, 0), Q(225, 0), current_timestamp(t), 3)

mock_gps_san_francisco(t) ==
    GpsData(Dec4(1, 37, 7749), Dec4(-1, 122, 4194), Some(Q(16, 0)), Q(5, 0),
            Some(Zero), current_timestamp(t))

mock_gps_moving(t) ==
    GpsData(Dec4(1, 37, 7750), Dec4(-1, 122, 4195), Some(Q(18, 0)), Q(8, 0),
            Some(Q(5, 2)), current_timestamp(t))

mock_pressure_sea_level(t) == PressureData(Q(1013, 1), current_timestamp(t))

\* mutant: 95.0 for 950.0
mock_pressure_altitude_typo(t) == PressureData(Q(95, 0), current_timestamp(t))

mock_pressure_altitude(t) == PressureData(Q(950, 0), current_timestamp(t))

mock_temperature_comfortable(t) == TemperatureData(Q(22, 2), current_timestamp(t))

mock_temperature_hot(t) == TemperatureData(Q(35, 0), current_timestamp(t))

----------------------------------------------------------------------------
\* Serialize / Deserialize (serde derives) through serde_json

\* The fields of each record, in declaration order, with their Rust types.
AccelerometerFields ==
    << <<"x", "f32">>, <<"y", "f32">>, <<"z", "f32">>, <<"timestamp", "i64">>,
       <<"accuracy", "i32">> >>

MagnetometerFields ==
    << <<"x", "f32">>, <<"y", "f32">>, <<"z", "f32">>, <<"heading", "f32">>,
       <<"timestamp", "i64">>, <<"accuracy", "i32">> >>

GpsFields ==
    << <<"latitude", "f64">>, <<"longitude", "f64">>, <<"altitude", "Option<f64>">>,
       <<"accuracy", "f32">>, <<"speed", "Option<f32>">>, <<"timestamp", "i64">> >>

PressureFields == << <<"pressure", "f32">>, <<"timestamp", "i64">> >>

TemperatureFields == << <<"temperature", "f32">>, <<"timestamp", "i64">> >>

WifiFields ==
    << <<"ssid", "String">>, <<"bssid", "String">>, <<"signal_strength", "i32">>,
       <<"frequency", "i32">>, <<"security", "String">> >>

FieldsOf(ty) ==
    CASE ty = "AccelerometerData" -> AccelerometerFields
      [] ty = "MagnetometerData" -> MagnetometerFields
      [] ty = "GpsData" -> GpsFields
      [] ty = "PressureData" -> PressureFields
      [] ty = "TemperatureData" -> TemperatureFields
      [] ty = "WifiNetwork" -> WifiFields

\* JSON text of a value: a number is its characters, a string is quoted.
Digits == <<"0", "1", "2", "3", "4", "5", "6", "7", "8", "9">>

RECURSIVE NatText(_)
NatText(n) ==
    IF n < 10 THEN <<Digits[n + 1]>> ELSE NatText(n \div 10) \o <<Digits[(n % 10) + 1]>>

\* itoa
IntText(n) == IF n < 0 THEN <<"-">> \o NatText(-n) ELSE NatText(n)

\* The shortest decimal of a finite value that is a whole number of
\* quarters: "1.0", "-0.5", "2.25", "1013.75".
FloatText(a) ==
    LET m == Abs(a.v)
        q == (m % Scale) \div (Scale \div 4)
    IN  (IF a.v < 0 THEN <<"-">> ELSE <<>>)
        \o NatText(m \div Scale) \o <<".">>
        \o << <<"0">>, <<"2", "5">>, <<"5">>, <<"7", "5">> >>[q + 1]

JsonNull == [t |-> "null", text |-> <<"n", "u", "l", "l">>]

JsonNumber(text) == [t |-> "number", text |-> text]

JsonString(str) == [t |-> "string", text |-> <<"\"", str, "\"">>]

\* serde_json writes a float that is not finite as null.
SerializeFloat(a) == IF IsFinite(a) THEN JsonNumber(FloatText(a)) ELSE JsonNull

SerializeField(v, ty) ==
    CASE ty \in {"f32", "f64"} -> SerializeFloat(v)
      [] ty \in {"i32", "i64"} -> JsonNumber(IntText(v))
      [] ty \in {"Option<f32>", "Option<f64>"} ->
            IF v.some THEN SerializeFloat(v.val) ELSE JsonNull
      [] ty = "String" -> JsonString(v)

\* serde_json::to_string: the object's members in declaration order
to_string(value, ty) ==
    LET fields == FieldsOf(ty)
    IN  [i \in 1 .. Len(fields) |->
            [key |-> fields[i][1], value |-> SerializeField(value[fields[i][1]], fields[i][2])]]

DigitValue(c) == CHOOSE d \in 0 .. 9 : Digits[d + 1] = c

RECURSIVE NatValue(_)
NatValue(t) ==
    IF t = <<>> THEN 0
    ELSE 10 * NatValue(SubSeq(t, 1, Len(t) - 1)) + DigitValue(t[Len(t)])

RECURSIVE Pow10(_)
Pow10(n) == IF n = 0 THEN 1 ELSE 10 * Pow10(n - 1)

IntValue(t) == IF t[1] = "-" THEN -NatValue(Tail(t)) ELSE NatValue(t)

\* The value, in units, of the decimal text of a number.
NumberValue(t) ==
    LET neg == t[1] = "-"
        body == IF neg THEN Tail(t) ELSE t
        dots == {i \in 1 .. Len(body) : body[i] = "."}
        dot == IF dots = {} THEN Len(body) + 1 ELSE CHOOSE i \in dots : TRUE
        int == NatValue(SubSeq(body, 1, dot - 1))
        frac == SubSeq(body, dot + 1, Len(body))
        m == int * Scale + (NatValue(frac) * Scale) \div Pow10(Len(frac))
    IN  IF neg THEN -m ELSE m

Parsed(v) == [ok |-> TRUE, val |-> v]

ParseError == [ok |-> FALSE, val |-> <<>>]

\* A number is read as f64 and an f32 field takes it `as f32`.
DeserializeFloat(tok, ty) ==
    IF tok.t # "number" THEN ParseError
    ELSE IF ty = "f32" THEN Parsed(F32(NumberValue(tok.text)))
    ELSE Parsed(Fin(NumberValue(tok.text)))

DeserializeField(tok, ty) ==
    CASE ty \in {"f32", "f64"} -> DeserializeFloat(tok, ty)
      [] ty \in {"i32", "i64"} ->
            IF tok.t = "number" /\ \A i \in 1 .. Len(tok.text) : tok.text[i] # "."
            THEN Parsed(IntValue(tok.text)) ELSE ParseError
      [] ty = "Option<f32>" ->
            IF tok.t = "null" THEN Parsed(None)
            ELSE LET r == DeserializeFloat(tok, "f32")
                 IN  IF r.ok THEN Parsed(Some(r.val)) ELSE ParseError
      [] ty = "Option<f64>" ->
            IF tok.t = "null" THEN Parsed(None)
            ELSE LET r == DeserializeFloat(tok, "f64")
                 IN  IF r.ok THEN Parsed(Some(r.val)) ELSE ParseError
      [] ty = "String" ->
            IF tok.t = "string" THEN Parsed(tok.text[2]) ELSE ParseError

\* serde_json::from_str: every field is looked up by its name.
from_str(json, ty) ==
    LET fields == FieldsOf(ty)
        Member(name) == {i \in 1 .. Len(json) : json[i].key = name}
        Field(i) ==
            IF Member(fields[i][1]) = {} THEN ParseError
            ELSE DeserializeField(json[CHOOSE k \in Member(fields[i][1]) : TRUE].value,
                                  fields[i][2])
    IN  IF \A i \in 1 .. Len(fields) : Field(i).ok
        THEN Parsed([name \in {fields[i][1] : i \in 1 .. Len(fields)} |->
                        Field(CHOOSE i \in 1 .. Len(fields) : fields[i][1] = name).val])
        ELSE ParseError

\* == of f32 and f64: NaN is equal to nothing.
FEq(a, b) == ~IsNaN(a) /\ ~IsNaN(b) /\ Ord(a) = Ord(b)

FieldEq(a, b, ty) ==
    CASE ty \in {"f32", "f64"} -> FEq(a, b)
      [] ty \in {"Option<f32>", "Option<f64>"} ->
            a.some = b.some /\ (a.some => FEq(a.val, b.val))
      [] OTHER -> a = b

\* derived PartialEq: field by field
RecordEq(a, b, ty) ==
    LET fields == FieldsOf(ty)
    IN  \A i \in 1 .. Len(fields) : FieldEq(a[fields[i][1]], b[fields[i][1]], fields[i][2])

----------------------------------------------------------------------------
\* SensorService: formatting

RECURSIVE Pow5(_)
Pow5(n) == IF n = 0 THEN 1 ELSE 5 * Pow5(n - 1)

\* The digits of n, padded with zeros on the left to d digits.
RECURSIVE Padded(_, _)
Padded(n, d) == IF d = 0 THEN <<>> ELSE Padded(n \div 10, d - 1) \o <<Digits[(n % 10) + 1]>>

\* {:.d} of a float: the exact value rounded to d decimals, ties to even;
\* a negative value keeps its sign even when it rounds to zero.
FormatFixed(a, d) ==
    IF IsNaN(a) THEN <<"NaN">>
    ELSE IF a.cls = "inf" THEN (IF a.v < 0 THEN <<"-", "inf">> ELSE <<"inf">>)
    ELSE LET m == Abs(a.v)
             num == (m % Scale) * Pow5(d)
             den == 2^(19 - d)
             lo == num \div den
             r == num - lo * den
             t == IF 2 * r > den \/ (2 * r = den /\ lo % 2 = 1) THEN lo + 1 ELSE lo
             carry == IF t = Pow10(d) THEN 1 ELSE 0
         IN  (IF a.v < 0 THEN <<"-">> ELSE <<>>)
             \o NatText(m \div Scale + carry) \o <<".">>
             \o Padded(t - carry * Pow10(d), d)

\* a * k and a / k in f32, k a small whole constant (9.0, 5.0).  The
\* quotient is exact in the model when it is at least 16.0 in magnitude or
\* a whole number of units.
FMul(a, k) ==
    IF a.cls # "fin" THEN a ELSE Fin(RoundF32(a.v * k))

FDiv(a, k) ==
    IF a.cls # "fin" THEN a
    ELSE LET m == Abs(a.v)
             q == Quantum(m \div k)
             lo == m \div (k * q)
             r == m - lo * k * q
             up == IF 2 * r > k * q \/ (2 * r = k * q /\ lo % 2 = 1) THEN lo + 1 ELSE lo
         IN  Fin((IF a.v < 0 THEN -1 ELSE 1) * up * q)

\* mutant: 1000.0 itself is tagged (Low)
format_pressure_le(data) ==
    LET description == IF FLe(data.pressure, Q(1000, 0)) THEN "(Low)"
                       ELSE IF FGt(data.pressure, Q(1020, 0)) THEN "(High)"
                       ELSE "(Normal)"
    IN  FormatFixed(data.pressure, 2) \o <<" hPa ", description>>

format_pressure(data) ==
    LET description == IF FLt(data.pressure, Q(1000, 0)) THEN "(Low)"
                       ELSE IF FGt(data.pressure, Q(1020, 0)) THEN "(High)"
                       ELSE "(Normal)"
    IN  FormatFixed(data.pressure, 2) \o <<" hPa ", description>>

\* mutant: the coordinates are printed without .abs()
format_gps_signed(data) ==
    LET lat_dir == IF FGe(data.latitude, Zero) THEN "N" ELSE "S"
        lon_dir == IF FGe(data.longitude, Zero) THEN "E" ELSE "W"
    IN  FormatFixed(data.latitude, 4) \o <<"° ", lat_dir, ", ">>
        \o FormatFixed(data.longitude, 4) \o <<"° ", lon_dir>>

format_gps(data) ==
    LET lat_dir == IF FGe(data.latitude, Zero) THEN "N" ELSE "S"
        lon_dir == IF FGe(data.longitude, Zero) THEN "E" ELSE "W"
    IN  FormatFixed(FAbs(data.latitude), 4) \o <<"° ", lat_dir, ", ">>
        \o FormatFixed(FAbs(data.longitude), 4) \o <<"° ", lon_dir>>

\* mutant: the factors of the conversion swapped
format_temperature_swapped(data) ==
    LET fahrenheit == FAdd(FDiv(FMul(data.temperature, 5), 9), Q(32, 0))
    IN  FormatFixed(data.temperature, 1) \o <<"°C (">>
        \o FormatFixed(fahrenheit, 1) \o <<"°F)">>

format_temperature(data) ==
    LET fahrenheit == FAdd(FDiv(FMul(data.temperature, 9), 5), Q(32, 0))
    IN  FormatFixed(data.temperature, 1) \o <<"°C (">>
        \o FormatFixed(fahrenheit, 1) \o <<"°F)">>

----------------------------------------------------------------------------
\* Inputs of the callers

AccelValues ==
    {NaN, PInf, Fin(-20 * Scale - 1), Q(-20, 0), Q(9, 3), Q(20, 0), Fin(20 * Scale + 1)}

Timestamps == {0, 1000}

AccelInputs ==
    {AccelerometerData(x, y, z, 1000, 3) : x \in AccelValues, y \in AccelValues, z \in AccelValues}

LatValues ==
    {NaN, NInf, Fin(-90 * Scale - 1), Q(-90, 0), Q(37, 3), Q(90, 0), Fin(90 * Scale + 1)}

LonValues ==
    {NaN, PInf, Fin(-180 * Scale - 1), Q(-180, 0), Q(-122, 1), Q(180, 0),
     Fin(180 * Scale + 1)}

\* altitude, accuracy, speed, timestamp
GpsRest ==
    {<<None, Q(10, 0), None, 0>>,
     <<Some(Q(16, 0)), Q(5, 0), Some(Q(5, 2)), 1000>>,
     <<Some(NInf), NaN, Some(Q(-1, 0)), 0>>}

GpsInputs ==
    {GpsData(lat, lon, r[1], r[2], r[3], r[4]) :
        lat \in LatValues, lon \in LonValues, r \in GpsRest}

\* f32 values are 2^-14 apart between 512 and 1024, 2^-13 above.
PressureValues ==
    {NaN, NInf, PInf, Q(0, 0), Fin(800 * Scale - 32), Q(800, 0), Q(950, 0),
     Q(1013, 1), Q(1100, 0), Fin(1100 * Scale + 64), Q(-900, 0)}

PressureInputs == {PressureData(p, ts) : p \in PressureValues, ts \in Timestamps}

\* f32 values are 2^-18 apart between 32 and 64, 2^-17 between 64 and 128.
TemperatureValues ==
    {NaN, NInf, PInf, Q(-273, 0), Fin(-50 * Scale - 2), Q(-50, 0), Q(0, 0),
     Q(22, 2), Q(100, 0), Fin(100 * Scale + 4), Q(1000, 0)}

TemperatureInputs == {TemperatureData(t, ts) : t \in TemperatureValues, ts \in Timestamps}

\* Headings: the sector boundaries, the f32 values next to them, the same
\* a turn further, and the headings of the tests.
Pred(n) == n - Quantum(n - 1)

Succ(n) == n + Quantum(n)

Boundaries == {(45 * k + 22) * Scale + Scale \div 2 : k \in 0 .. 7}

HeadingValues ==
    {Fin(b) : b \in Boundaries}
    \cup {Fin(Pred(b)) : b \in Boundaries}
    \cup {Fin(Succ(b)) : b \in Boundaries}
    \cup {Fin(b + 360 * Scale) : b \in Boundaries}
    \cup {Fin(-b) : b \in Boundaries}
    \cup {Fin(-Succ(b)) : b \in Boundaries}
    \cup {Q(0, 0), Q(10, 0), Q(45, 0), Q(85, 0), Q(90, 0), Q(180, 0), Q(270, 0),
          Q(350, 0), Q(360, 0), Q(720, 0), Q(-90, 0), Q(-360, 0), Fin(-1),
          Fin(Pred(360 * Scale)), NaN, PInf, NInf}

HeadingPairs ==
    {<<Q(0, 0), Q(10, 0)>>, <<Q(10, 0), Q(0, 0)>>, <<Q(0, 0), Q(-10, 0)>>,
     <<Q(-10, 0), Q(0, 0)>>, <<Q(10, 0), Q(10, 0)>>, <<Q(-10, 0), Q(10, 0)>>,
     <<Q(-10, 0), Q(-10, 0)>>, <<Q(10, 0), Q(-10, 0)>>, <<Q(0, 0), Q(0, 0)>>,
     <<Fin(1), Q(10, 0)>>, <<Fin(-1), Q(10, 0)>>, <<Fin(2), Q(10, 0)>>,
     <<Fin(-2), Q(10, 0)>>, <<Fin(-1), Q(1, 0)>>, <<Fin(1), Q(1, 0)>>,
     <<NaN, Q(10, 0)>>, <<Q(10, 0), NaN>>}

RssiValues == (-72 .. -48) \cup {-100, 0, 2147483647, -2147483647}

NetworkPool ==
    {mock_wifi_networks[i] : i \in 1 .. 3}
    \cup {WifiNetwork("Office", "22:33:44:55:66:77", -52, 5200, "WPA2")}

WifiInputs == UNION {[1 .. n -> NetworkPool] : n \in 0 .. MaxNetworks}

JsonFloats == {Q(1, 0), Q(-2, 1), Q(0, 3), NaN, PInf}

JsonInputs ==
    {[ty |-> "AccelerometerData", value |-> AccelerometerData(x, y, Q(3, 0), ts, 2)] :
        x \in JsonFloats, y \in {Q(2, 0), NInf}, ts \in {1000, -7}}
    \cup {[ty |-> "MagnetometerData",
           value |-> MagnetometerData(Q(10, 0), Q(20, 0), Q(30, 0), h, 1000, 3)] :
        h \in JsonFloats}
    \cup {[ty |-> "GpsData", value |-> GpsData(lat, Q(-122, 1), alt, Q(5, 0), spd, 0)] :
        lat \in {Q(37, 3), NaN}, alt \in {None, Some(Q(16, 0)), Some(PInf), Some(NaN)},
        spd \in {None, Some(Q(0, 0)), Some(NInf)}}
    \cup {[ty |-> "PressureData", value |-> PressureData(p, 1000)] :
        p \in JsonFloats \cup {Q(1013, 1)}}
    \cup {[ty |-> "TemperatureData", value |-> TemperatureData(t, 1000)] : t \in JsonFloats}
    \cup {[ty |-> "WifiNetwork", value |-> n] : n \in NetworkPool}

\* Pressures around the two thresholds of format_pressure and outside the
\* valid range.
FormatPressureValues ==
    {NaN, NInf, PInf, Q(700, 0), Q(950, 0), Fin(1000 * Scale - 32), Q(1000, 0),
     Q(1013, 1), Q(1020, 0), Fin(1020 * Scale + 64), Q(1084, 0), Q(1200, 0), Q(-5, 0)}

FormatPressureInputs == {PressureData(p, 1000) : p \in FormatPressureValues}

FormatLatValues == {NaN, NInf, Q(-95, 0), Q(-37, 3), Fin(-1), Q(0, 0), Fin(1), Q(37, 3)}

FormatLonValues == {NaN, PInf, Q(-122, 1), Fin(-1), Q(0, 0), Q(122, 1), Q(200, 0)}

FormatGpsInputs ==
    {GpsData(lat, lon, None, Q(5, 0), None, 1000) :
        lat \in FormatLatValues, lon \in FormatLonValues}

\* Temperatures of at least 16 * 5 / 9 in magnitude, and zero.
FormatTemperatureValues ==
    {NaN, NInf, PInf, Q(0, 0), Fin(8403172), Fin(8461426), Fin(8577934), Q(22, 2),
     Q(35, 0), Q(37, 0), Q(100, 0), Q(-40, 0), Q(-50, 0), Q(-273, 0), Q(400, 0),
     Fin(-8403172), Q(16, 1), Q(21, 3)}

FormatTemperatureInputs == {TemperatureData(t, 1000) : t \in FormatTemperatureValues}

----------------------------------------------------------------------------
\* The callers' steps.  call is the last call with its argument and its
\* result (for an operation on a borrowed mutable slice, arg is the slice
\* before the call and res the slice after it); kinds is the set of error
\* kinds returned so far.

Returned(op, arg, res) ==
    /\ call' = [op |-> op, arg |-> arg, res |-> res]
    /\ kinds' = kinds
    /\ UNCHANGED <<mockVars, callerVars>>

Validated(op, arg, res) ==
    /\ call' = [op |-> op, arg |-> arg, res |-> res]
    /\ kinds' = IF res.ok THEN kinds ELSE kinds \cup {res.kind}
    /\ UNCHANGED <<mockVars, callerVars>>

ValidateAccelerometer ==
    \E data \in AccelInputs :
        Validated("validate_accelerometer", data, validate_accelerometer(data))

ValidateGps ==
    \E data \in GpsInputs :
        Validated("validate_gps", data, validate_gps(data))

ValidatePressure ==
    \E data \in PressureInputs :
        Validated("validate_pressure", data, validate_pressure(data))

ValidateTemperature ==
    \E data \in TemperatureInputs :
        Validated("validate_temperature", data, validate_temperature(data))

CalculateHeading ==
    \E p \in HeadingPairs :
        Returned("calculate_heading", p, calculate_heading(p[1], p[2]))

GetCardinalDirection ==
    \E heading \in HeadingValues :
        Returned("get_cardinal_direction", heading, get_cardinal_direction(heading))

SortWifiBySignal ==
    \E nets \in WifiInputs :
        Returned("sort_wifi_by_signal", nets, sort_wifi_by_signal(nets))

GetSignalDescription ==
    \E rssi \in RssiValues :
        Returned("get_signal_description", rssi, get_signal_description(rssi))

FormatPressure ==
    \E data \in FormatPressureInputs :
        Returned("format_pressure", data, format_pressure(data))

FormatGps ==
    \E data \in FormatGpsInputs :
        Returned("format_gps", data, format_gps(data))

FormatTemperature ==
    \E data \in FormatTemperatureInputs :
        Returned("format_temperature", data, format_temperature(data))

\* serde_json::to_string(&data)
SerializeJson ==
    \E data \in JsonInputs :
        Returned("to_string", data, to_string(data.value, data.ty))

\* serde_json::from_str(&json) of the text just written
DeserializeJson ==
    /\ call.op = "to_string"
    /\ Returned("from_str", [ty |-> call.arg.ty, value |-> call.arg.value, json |-> call.res],
                from_str(call.res, call.arg.ty))

\* The callers of the service: each owns the records it got from the mock
\* providers and its own scan result.
Callers == 1 .. MaxCallers

\* networks: the scan result, turned round by c - 1 places.
OwnedBy(c, t) ==
    LET scan == mock_wifi_networks
        networks == [i \in 1 .. Len(scan) |-> scan[((i + c - 2) % Len(scan)) + 1]]
    IN
    IF c % 2 = 1
    THEN [accelerometer |-> mock_accelerometer_at_rest(t),
          magnetometer |-> mock_magnetometer_north(t),
          gps |-> mock_gps_san_francisco(t),
          pressure |-> mock_pressure_sea_level(t),
          temperature |-> mock_temperature_comfortable(t),
          networks |-> networks]
    ELSE [accelerometer |-> mock_accelerometer_shaking(t),
          magnetometer |-> mock_magnetometer_southwest(t),
          gps |-> mock_gps_moving(t),
          pressure |-> mock_pressure_altitude(t),
          temperature |-> mock_temperature_hot(t),
          networks |-> networks]

Idle == [op |-> "idle", arg |-> <<>>, at |-> 0]

NoResult == [op |-> "none", arg |-> <<>>, res |-> <<>>]

InitCallers ==
    /\ owned = [c \in Callers |-> OwnedBy(c, 0)]
    /\ pending = [c \in Callers |-> Idle]
    /\ result = [c \in Callers |-> NoResult]

NoCall == [op |-> "new", arg |-> <<>>, res |-> <<>>]

NoMock == [gen |-> "none", value |-> <<>>, at |-> 0]

InitCalls ==
    /\ call = NoCall
    /\ kinds = {}

InitMocks ==
    /\ mock = NoMock
    /\ verdict = [by |-> "none", res |-> OkResult]
    /\ now = [read |-> FALSE, at |-> 0]
    /\ elapsed = 0
    /\ setback = FALSE

Init ==
    /\ InitCalls
    /\ InitMocks
    /\ InitCallers
    /\ clock = 0

Next ==
    \/ ValidateAccelerometer
    \/ ValidateGps
    \/ ValidatePressure
    \/ ValidateTemperature
    \/ CalculateHeading
    \/ GetCardinalDirection
    \/ SortWifiBySignal
    \/ GetSignalDescription
    \/ FormatPressure
    \/ FormatGps
    \/ FormatTemperature
    \/ SerializeJson
    \/ DeserializeJson

Spec == Init /\ [][Next]_vars

----------------------------------------------------------------------------
\* The mock providers and the wall clock

ClockValues == {k * TickMs : k \in -MinTicks .. MaxTicks}

\* A mock provider returns: the caller holds the record (at is the clock
\* at the call).
Generated(gen, value) ==
    /\ mock' = [gen |-> gen, value |-> value, at |-> clock]
    /\ verdict' = [by |-> "none", res |-> OkResult]
    /\ now' = [read |-> FALSE, at |-> 0]
    /\ elapsed' = 0
    /\ setback' = FALSE
    /\ UNCHANGED <<clock, callVars, callerVars>>

MockAccelerometerAtRest ==
    Generated("mock_accelerometer_at_rest", mock_accelerometer_at_rest(clock))

MockAccelerometerShaking ==
    Generated("mock_accelerometer_shaking", mock_accelerometer_shaking(clock))

MockMagnetometerNorth ==
    Generated("mock_magnetometer_north", mock_magnetometer_north(clock))

MockMagnetometerSouthwest ==
    Generated("mock_magnetometer_southwest", mock_magnetometer_southwest(clock))

MockGpsSanFrancisco ==
    Generated("mock_gps_san_francisco", mock_gps_san_francisco(clock))

MockGpsMoving == Generated("mock_gps_moving", mock_gps_moving(clock))

MockPressureSeaLevel ==
    Generated("mock_pressure_sea_level", mock_pressure_sea_level(clock))

MockPressureAltitude ==
    Generated("mock_pressure_altitude", mock_pressure_altitude(clock))

MockTemperatureComfortable ==
    Generated("mock_temperature_comfortable", mock_temperature_comfortable(clock))

MockTemperatureHot == Generated("mock_temperature_hot", mock_temperature_hot(clock))

MockWifiNetworks == Generated("mock_wifi_networks", mock_wifi_networks)

Stamped ==
    {"mock_accelerometer_at_rest", "mock_accelerometer_shaking", "mock_magnetometer_north",
     "mock_magnetometer_southwest", "mock_gps_san_francisco", "mock_gps_moving",
     "mock_pressure_sea_level", "mock_pressure_altitude", "mock_temperature_comfortable",
     "mock_temperature_hot"}

\* Time passes.
Tick ==
    /\ clock + TickMs <= MaxTicks * TickMs
    /\ elapsed + TickMs <= (MinTicks + MaxTicks) * TickMs
    /\ clock' = clock + TickMs
    /\ elapsed' = IF mock = NoMock THEN 0 ELSE elapsed + TickMs
    /\ UNCHANGED <<mock, verdict, now, setback, callVars, callerVars>>

\* The wall clock is set back (SystemTime is not monotonic).
SetClockBack ==
    \E t \in ClockValues :
        /\ t < clock
        /\ clock' = t
        /\ setback' = (mock # NoMock)
        /\ UNCHANGED <<mock, verdict, now, elapsed, callVars, callerVars>>

\* let now = current_timestamp(), after the record was made
ReadClock ==
    /\ mock.gen \in Stamped
    /\ now' = [read |-> TRUE, at |-> current_timestamp(clock)]
    /\ UNCHANGED <<clock, mock, verdict, elapsed, setback, callVars, callerVars>>

Judged(by, res) ==
    /\ verdict' = [by |-> by, res |-> res]
    /\ UNCHANGED <<clock, mock, now, elapsed, setback, callVars, callerVars>>

ValidateMockAccelerometer ==
    /\ mock.gen \in {"mock_accelerometer_at_rest", "mock_accelerometer_shaking"}
    /\ Judged("validate_accelerometer", validate_accelerometer(mock.value))

ValidateMockGps ==
    /\ mock.gen \in {"mock_gps_san_francisco", "mock_gps_moving"}
    /\ Judged("validate_gps", validate_gps(mock.value))

ValidateMockPressure ==
    /\ mock.gen \in {"mock_pressure_sea_level", "mock_pressure_altitude"}
    /\ Judged("validate_pressure", validate_pressure(mock.value))

ValidateMockTemperature ==
    /\ mock.gen \in {"mock_temperature_comfortable", "mock_temperature_hot"}
    /\ Judged("validate_temperature", validate_temperature(mock.value))

InitMockCaller ==
    /\ InitCalls
    /\ InitMocks
    /\ InitCallers
    /\ clock \in ClockValues

NextMocks ==
    \/ MockAccelerometerAtRest
    \/ MockAccelerometerShaking
    \/ MockMagnetometerNorth
    \/ MockMagnetometerSouthwest
    \/ MockGpsSanFrancisco
    \/ MockGpsMoving
    \/ MockPressureSeaLevel
    \/ MockPressureAltitude
    \/ MockTemperatureComfortable
    \/ MockTemperatureHot
    \/ MockWifiNetworks
    \/ Tick
    \/ SetClockBack
    \/ ReadClock
    \/ ValidateMockAccelerometer
    \/ ValidateMockGps
    \/ ValidateMockPressure
    \/ ValidateMockTemperature

SpecMocks == InitMockCaller /\ [][NextMocks]_vars

----------------------------------------------------------------------------
\* Several callers of one SensorService

\* The operations that only read what they are given.
ServiceOps ==
    {"validate_accelerometer", "validate_gps", "validate_pressure",
     "validate_temperature", "format_gps", "format_pressure", "format_temperature",
     "calculate_heading", "get_cardinal_direction", "get_signal_description"}

\* What a caller passes to an operation, out of the data it owns.
Argument(op, data) ==
    CASE op = "validate_accelerometer" -> data.accelerometer
      [] op \in {"validate_gps", "format_gps"} -> data.gps
      [] op \in {"validate_pressure", "format_pressure"} -> data.pressure
      [] op \in {"validate_temperature", "format_temperature"} -> data.temperature
      [] op = "calculate_heading" -> <<data.magnetometer.x, data.magnetometer.y>>
      [] op = "get_cardinal_direction" -> data.magnetometer.heading
      [] op = "get_signal_description" -> data.networks[1].signal_strength
      [] op = "sort_wifi_by_signal" -> data.networks

Apply(op, arg) ==
    CASE op = "validate_accelerometer" -> validate_accelerometer(arg)
      [] op = "validate_gps" -> validate_gps(arg)
      [] op = "validate_pressure" -> validate_pressure(arg)
      [] op = "validate_temperature" -> validate_temperature(arg)
      [] op = "format_gps" -> format_gps(arg)
      [] op = "format_pressure" -> format_pressure(arg)
      [] op = "format_temperature" -> format_temperature(arg)
      [] op = "calculate_heading" -> calculate_heading(arg[1], arg[2])
      [] op = "get_cardinal_direction" -> get_cardinal_direction(arg)
      [] op = "get_signal_description" -> get_signal_description(arg)
      [] op = "sort_wifi_by_signal" -> sort_wifi_by_signal(arg)

\* (mutant: every call works on the data of caller 1)
BorrowedShared(c) == 1

\* Whose data a call of caller c reads and writes: the methods take &self
\* of a struct without fields and the data by reference from the caller.
Borrowed(c) == c

\* The slice with its first k elements sorted (a sort in progress).
SortedPrefix(s, k) ==
    IF k = 0 THEN s
    ELSE InsertSorted(SubSeq(s, 1, k - 1), s[k]) \o SubSeq(s, k + 1, Len(s))

ServiceCall(c) ==
    /\ pending[c] = Idle
    /\ \E op \in ServiceOps :
          pending' = [pending EXCEPT
                         ![c] = [op |-> op, arg |-> Argument(op, owned[c]), at |-> 0]]
    /\ result' = [result EXCEPT ![c] = NoResult]
    /\ UNCHANGED <<owned, callVars, mockVars>>

ServiceReturn(c) ==
    /\ pending[c].op \in ServiceOps
    /\ result' = [result EXCEPT
                     ![c] = [op |-> pending[c].op, arg |-> pending[c].arg,
                             res |-> Apply(pending[c].op,
                                           Argument(pending[c].op, owned[Borrowed(c)]))]]
    /\ pending' = [pending EXCEPT ![c] = Idle]
    /\ UNCHANGED <<owned, callVars, mockVars>>

SortCall(c) ==
    /\ pending[c] = Idle
    /\ pending' = [pending EXCEPT
                      ![c] = [op |-> "sort_wifi_by_signal",
                              arg |-> Argument("sort_wifi_by_signal", owned[c]),
                              at |-> 0]]
    /\ result' = [result EXCEPT ![c] = NoResult]
    /\ UNCHANGED <<owned, callVars, mockVars>>

\* The sort moves the next element of the slice into place.
SortStep(c) ==
    /\ pending[c].op = "sort_wifi_by_signal"
    /\ pending[c].at < Len(owned[Borrowed(c)].networks)
    /\ owned' = [owned EXCEPT
                    ![Borrowed(c)].networks =
                        SortedPrefix(owned[Borrowed(c)].networks, pending[c].at + 1)]
    /\ pending' = [pending EXCEPT ![c].at = pending[c].at + 1]
    /\ UNCHANGED <<result, callVars, mockVars>>

SortReturn(c) ==
    /\ pending[c].op = "sort_wifi_by_signal"
    /\ pending[c].at = Len(owned[Borrowed(c)].networks)
    /\ result' = [result EXCEPT
                     ![c] = [op |-> pending[c].op, arg |-> pending[c].arg,
                             res |-> owned[Borrowed(c)].networks]]
    /\ pending' = [pending EXCEPT ![c] = Idle]
    /\ UNCHANGED <<owned, callVars, mockVars>>

NextConcurrent ==
    \E c \in Callers :
        \/ ServiceCall(c)
        \/ ServiceReturn(c)
        \/ SortCall(c)
        \/ SortStep(c)
        \/ SortReturn(c)

SpecConcurrent == Init /\ [][NextConcurrent]_vars

----------------------------------------------------------------------------
\* Properties

InRange(a, lo, hi) == a.cls = "fin" /\ lo * Scale <= a.v /\ a.v <= hi * Scale

\* |a| > 20.0
Exceeds20(a) == a.cls = "inf" \/ (a.cls = "fin" /\ (a.v > 20 * Scale \/ a.v < -20 * Scale))

\* C1: validate_accelerometer returns Err(DataError) if and only if at least
\* one of |x|, |y|, |z| is strictly greater than 20.0; a reading with an axis
\* of exactly 20.0 or -20.0 and no axis beyond it is accepted.
C1_AccelerometerRange ==
    call.op = "validate_accelerometer" =>
        /\ ~call.res.ok <=>
              Exceeds20(call.arg.x) \/ Exceeds20(call.arg.y) \/ Exceeds20(call.arg.z)
        /\ ~call.res.ok => call.res.kind = "DataError"

C1_Witness ==
    /\ call.op = "validate_accelerometer"
    /\ call.arg.x = Q(20, 0) /\ call.arg.y = Q(-20, 0) /\ call.arg.z = Q(9, 3)
    /\ call.res.ok

\* C2: validate_gps returns Ok if and only if latitude is in [-90, 90] and
\* longitude is in [-180, 180], whatever altitude, accuracy, speed and
\* timestamp are.
C2_GpsRange ==
    call.op = "validate_gps" =>
        (call.res.ok <=>
            InRange(call.arg.latitude, -90, 90) /\ InRange(call.arg.longitude, -180, 180))

C2_Witness ==
    /\ call.op = "validate_gps"
    /\ call.arg.latitude = Q(90, 0)
    /\ call.arg.longitude = Fin(180 * Scale + 1)
    /\ call.arg.altitude = Some(NInf)
    /\ ~call.res.ok

\* C3: validate_pressure returns Ok exactly when pressure is in [800, 1100],
\* both ends included, and an error for every value below or above.
C3_PressureRange ==
    call.op = "validate_pressure" =>
        (call.res.ok <=> InRange(call.arg.pressure, 800, 1100))

C3_Witness ==
    /\ call.op = "validate_pressure"
    /\ call.arg.pressure = Q(1100, 0)
    /\ call.res.ok

\* C4: validate_temperature returns Ok exactly when temperature is in
\* [-50, 100], both ends included, and an error for every value below or above.
C4_TemperatureRange ==
    call.op = "validate_temperature" =>
        (call.res.ok <=> InRange(call.arg.temperature, -50, 100))

C4_Witness ==
    /\ call.op = "validate_temperature"
    /\ call.arg.temperature = Q(-50, 0)
    /\ call.res.ok

Validators ==
    {"validate_accelerometer", "validate_gps", "validate_pressure", "validate_temperature"}

\* C5: over any sequence of validator calls, every error returned is a
\* DataError with a non-empty message; no other kind is ever produced, and
\* every call returns either Ok or an error value.
C5_OnlyDataError ==
    /\ kinds \subseteq {"DataError"}
    /\ call.op \in Validators =>
          /\ call.res.ok \in BOOLEAN
          /\ ~call.res.ok => call.res.kind = "DataError" /\ call.res.msg # ""

C5_Witness ==
    /\ kinds = {"DataError"}
    /\ call.op = "validate_gps"
    /\ ~call.res.ok
    /\ call.res.msg = "Invalid longitude"

FullTurn == 360 * Scale

\* The label of the 45-degree sector of a heading of n units, taken modulo
\* a full turn in exact arithmetic.
ExactSector(n) ==
    LET h == n % FullTurn
        k == ((2 * h + 45 * Scale) \div (90 * Scale)) % 8
    IN  <<"N", "NE", "E", "SE", "S", "SW", "W", "NW">>[k + 1]

\* C6: get_cardinal_direction normalizes any heading into [0, 360) and maps
\* it to the label of its 45-degree sector, lower bound inclusive and upper
\* bound exclusive (N for [337.5, 360) and [0, 22.5), NE for [22.5, 67.5),
\* ...), so that h and h + 360k get the same label.
C6_Sectors ==
    call.op = "get_cardinal_direction" /\ IsFinite(call.arg) =>
        call.res = ExactSector(call.arg.v)

\* C7: for every input (x, y) calculate_heading returns a value in [0, 360),
\* never negative and never 360: 0 for (0, 10), 90 for (10, 0), 180 for
\* (0, -10) and 270 for (-10, 0).
C7_HeadingRange ==
    call.op = "calculate_heading" /\ IsFinite(call.arg[1]) /\ IsFinite(call.arg[2]) =>
        /\ IsFinite(call.res)
        /\ 0 <= call.res.v /\ call.res.v < FullTurn
        /\ call.arg = <<Q(0, 0), Q(10, 0)>> => call.res = Q(0, 0)
        /\ call.arg = <<Q(10, 0), Q(0, 0)>> => call.res = Q(90, 0)
        /\ call.arg = <<Q(0, 0), Q(-10, 0)>> => call.res = Q(180, 0)
        /\ call.arg = <<Q(-10, 0), Q(0, 0)>> => call.res = Q(270, 0)

Strengths(nets) == [i \in 1 .. Len(nets) |-> nets[i].signal_strength]

\* C8: after sort_wifi_by_signal the sequence is in non-increasing order of
\* signal_strength; strengths [-45, -68, -52] become [-45, -52, -68].
C8_SortedDescending ==
    call.op = "sort_wifi_by_signal" =>
        /\ \A i \in 1 .. Len(call.res) - 1 :
              call.res[i].signal_strength >= call.res[i + 1].signal_strength
        /\ Strengths(call.arg) = <<-45, -68, -52>> =>
              Strengths(call.res) = <<-45, -52, -68>>

C8_Witness ==
    /\ call.op = "sort_wifi_by_signal"
    /\ call.arg = mock_wifi_networks
    /\ call.res # call.arg

\* C9: get_signal_description returns Excellent for rssi >= -50, Good for
\* -60 <= rssi <= -51, Fair for -70 <= rssi <= -61 and Weak for rssi <= -71.
C9_SignalDescription ==
    call.op = "get_signal_description" =>
        /\ call.res = "Excellent" <=> call.arg >= -50
        /\ call.res = "Good" <=> (-60 <= call.arg /\ call.arg <= -51)
        /\ call.res = "Fair" <=> (-70 <= call.arg /\ call.arg <= -61)
        /\ call.res = "Weak" <=> call.arg <= -71

C9_Witness ==
    /\ call.op = "get_signal_description"
    /\ call.arg = -60
    /\ call.res = "Good"

AllFinite(value, ty) ==
    LET fields == FieldsOf(ty)
    IN  \A i \in 1 .. Len(fields) :
            LET v == value[fields[i][1]]
            IN  CASE fields[i][2] \in {"f32", "f64"} -> IsFinite(v)
                  [] fields[i][2] \in {"Option<f32>", "Option<f64>"} ->
                        v.some => IsFinite(v.val)
                  [] OTHER -> TRUE

\* C10: encoding any data record to JSON and decoding that text back
\* succeeds and yields a record equal to the original, field for field.
C10_RoundTrip ==
    call.op = "from_str" =>
        /\ call.res.ok
        /\ RecordEq(call.res.val, call.arg.value, call.arg.ty)

\* a < x and a > x for a whole x, with NaN below and above nothing
Below(a, x) == (a.cls = "inf" /\ a.v < 0) \/ (a.cls = "fin" /\ a.v < x * Scale)

Above(a, x) == (a.cls = "inf" /\ a.v > 0) \/ (a.cls = "fin" /\ a.v > x * Scale)

Tags == {"(Low)", "(High)", "(Normal)"}

\* C11: format_pressure ends its output with exactly one of (Low), (High),
\* (Normal): (Low) when pressure < 1000.0, (High) when pressure > 1020.0 and
\* (Normal) otherwise, so for 1000.0 and 1020.0 too; values outside
\* [800, 1100] are tagged like any other.
C11_PressureTag ==
    call.op = "format_pressure" =>
        LET tag == call.res[Len(call.res)]
            p == call.arg.pressure
        IN  /\ Cardinality({i \in 1 .. Len(call.res) : call.res[i] \in Tags}) = 1
            /\ tag = "(Low)" <=> Below(p, 1000)
            /\ tag = "(High)" <=> Above(p, 1020)
            /\ tag = "(Normal)" <=> ~Below(p, 1000) /\ ~Above(p, 1020)

C11_Witness ==
    /\ call.op = "format_pressure"
    /\ call.arg.pressure = Q(1020, 0)
    /\ call.res[Len(call.res)] = "(Normal)"

\* The piece that follows the k-th degree sign of a formatted position.
Hemisphere(text, k) ==
    LET marks == {i \in 1 .. Len(text) : text[i] = "° "}
        first == CHOOSE i \in marks : \A j \in marks : i <= j
        last == CHOOSE i \in marks : \A j \in marks : j <= i
    IN  text[(IF k = 1 THEN first ELSE last) + 1]

\* C12: format_gps prints the absolute value of each coordinate followed by
\* a hemisphere letter: N when latitude >= 0 and S when latitude < 0, E when
\* longitude >= 0 and W when longitude < 0; zero is labelled N and E, and
\* no printed number is negative.
C12_Hemispheres ==
    call.op = "format_gps" =>
        LET lat == call.arg.latitude
            lon == call.arg.longitude
        IN  /\ ~Below(lat, 0) /\ ~IsNaN(lat) => Hemisphere(call.res, 1) = "N"
            /\ Below(lat, 0) => Hemisphere(call.res, 1) = "S"
            /\ ~Below(lon, 0) /\ ~IsNaN(lon) => Hemisphere(call.res, 2) = "E"
            /\ Below(lon, 0) => Hemisphere(call.res, 2) = "W"
            /\ \A i \in 1 .. Len(call.res) : call.res[i] # "-"
            /\ Cardinality({i \in 1 .. Len(call.res) : call.res[i] = "° "}) = 2

C12_Witness ==
    /\ call.op = "format_gps"
    /\ call.arg.latitude = Q(0, 0)
    /\ call.arg.longitude = Fin(-1)
    /\ call.res = <<"0", ".", "0", "0", "0", "0", "° ", "N", ", ",
                    "0", ".", "0", "0", "0", "0", "° ", "W">>

\* The tenths of a one-decimal number in text.
TenthsOf(text) ==
    LET neg == text[1] = "-"
        digits == SelectSeq(text, LAMBDA c : c \notin {"-", "."})
    IN  IF neg THEN -NatValue(digits) ELSE NatValue(digits)

\* v units to the nearest tenth, and v * 9 / 5 + 32 to the nearest tenth, in
\* exact arithmetic, ties to even.
NearestEven(whole, r) ==
    IF 2 * r > Scale \/ (2 * r = Scale /\ whole % 2 = 1) THEN whole + 1 ELSE whole

ExactTenths(v) ==
    LET t == 10 * (v % Scale)
    IN  NearestEven(10 * (v \div Scale) + t \div Scale, t % Scale)

ExactFahrenheitTenths(v) ==
    LET t == 18 * (v % Scale)
    IN  NearestEven(18 * (v \div Scale) + 320 + t \div Scale, t % Scale)

CelsiusPart(text) ==
    SubSeq(text, 1, (CHOOSE i \in 1 .. Len(text) : text[i] = "°C (") - 1)

FahrenheitPart(text) ==
    SubSeq(text, (CHOOSE i \in 1 .. Len(text) : text[i] = "°C (") + 1, Len(text) - 1)

\* C13 as claimed: format_temperature prints the Celsius value to one
\* decimal place and C * 9 / 5 + 32 to one decimal place; 0.0 gives
\* "0.0°C (32.0°F)".
C13_ExactFahrenheit ==
    call.op = "format_temperature" /\ IsFinite(call.arg.temperature) =>
        /\ TenthsOf(CelsiusPart(call.res)) = ExactTenths(call.arg.temperature.v)
        /\ TenthsOf(FahrenheitPart(call.res)) =
              ExactFahrenheitTenths(call.arg.temperature.v)

\* C13 amended: format_temperature prints the Celsius value to one decimal
\* place and the f32 value of C * 9.0 / 5.0 + 32.0 to one decimal place,
\* which is within one tenth of the exact C * 9 / 5 + 32 to one decimal
\* place; 0.0 gives "0.0°C (32.0°F)".
C13_FahrenheitF32 ==
    call.op = "format_temperature" /\ IsFinite(call.arg.temperature) =>
        /\ call.res[Len(call.res)] = "°F)"
        /\ TenthsOf(CelsiusPart(call.res)) = ExactTenths(call.arg.temperature.v)
        /\ Abs(TenthsOf(FahrenheitPart(call.res))
               - ExactFahrenheitTenths(call.arg.temperature.v)) <= 1
        /\ call.arg.temperature = Q(0, 0) =>
              call.res = <<"0", ".", "0", "°C (", "3", "2", ".", "0", "°F)">>

C13_Witness ==
    /\ call.op = "format_temperature"
    /\ call.arg.temperature = Fin(8403172)
    /\ FahrenheitPart(call.res) = <<"6", "0", ".", "8">>

Count(nets, n) == Cardinality({i \in 1 .. Len(nets) : nets[i] = n})

WithStrength(nets, st) == SelectSeq(nets, LAMBDA n : n.signal_strength = st)

NonIncreasing(nets) ==
    \A i \in 1 .. Len(nets) - 1 : nets[i].signal_strength >= nets[i + 1].signal_strength

\* C16: sort_wifi_by_signal only reorders: the sequence after the call is a
\* permutation of the sequence before it, with every record unchanged;
\* networks of equal signal_strength keep their relative order; and a
\* sequence that is already sorted is left as it is.
C16_SortReorders ==
    call.op = "sort_wifi_by_signal" =>
        /\ Len(call.res) = Len(call.arg)
        /\ \A n \in NetworkPool : Count(call.res, n) = Count(call.arg, n)
        /\ \A i \in 1 .. Len(call.res) : call.res[i] \in NetworkPool
        /\ \A n \in NetworkPool :
              WithStrength(call.res, n.signal_strength)
                  = WithStrength(call.arg, n.signal_strength)
        /\ NonIncreasing(call.arg) => call.res = call.arg
        /\ sort_wifi_by_signal(call.res) = call.res

C16_Witness ==
    /\ call.op = "sort_wifi_by_signal"
    /\ Len(call.arg) = 3
    /\ call.arg[1].ssid = "Neighbor_5G"
    /\ call.arg[2].ssid = "Office"
    /\ call.arg[3].ssid = "CoffeeShop-Guest"
    /\ call.res = <<call.arg[2], call.arg[3], call.arg[1]>>

\* C15 as claimed: a mock record carries the wall-clock time of the call,
\* never negative, and any later clock reading now has
\* timestamp <= now and timestamp > now - 1000.
C15_Recent ==
    now.read =>
        /\ mock.value.timestamp >= 0
        /\ mock.value.timestamp <= now.at
        /\ mock.value.timestamp > now.at - 1000

\* C15 amended: a mock record carries the wall-clock time in epoch
\* milliseconds read at the call, 0 when the clock is before the epoch and
\* never negative; a later reading now has timestamp <= now if the clock was
\* not set back in between, and then timestamp > now - 1000 if the clock
\* advanced by less than 1000 ms.
C15_Stamp ==
    /\ mock.gen \in Stamped =>
          /\ mock.value.timestamp >= 0
          /\ mock.at >= 0 => mock.value.timestamp = mock.at
          /\ mock.at < 0 => mock.value.timestamp = 0
    /\ now.read /\ ~setback =>
          /\ mock.value.timestamp <= now.at
          /\ now.at - mock.value.timestamp <= elapsed
          /\ elapsed < 1000 => mock.value.timestamp > now.at - 1000

C15_Witness ==
    /\ now.read
    /\ ~setback
    /\ mock.gen = "mock_accelerometer_at_rest"
    /\ mock.at = -TickMs
    /\ elapsed = TickMs
    /\ mock.value.timestamp = 0
    /\ now.at = 0

\* C17: every record of a mock provider passes the validator of its type,
\* whatever the clock reads; mock_wifi_networks returns the same three
\* networks in the same order, with the distinct strengths -45, -68, -52.
C17_MocksAreValid ==
    /\ verdict.by # "none" => verdict.res.ok
    /\ mock.gen = "mock_wifi_networks" =>
          /\ Len(mock.value) = 3
          /\ Strengths(mock.value) = <<-45, -68, -52>>
          /\ <<mock.value[1].ssid, mock.value[2].ssid, mock.value[3].ssid>>
                = <<"MyHomeWiFi", "Neighbor_5G", "CoffeeShop-Guest">>
          /\ \A i, j \in 1 .. 3 :
                i # j => mock.value[i].signal_strength # mock.value[j].signal_strength

C17_Witness ==
    /\ mock.gen = "mock_pressure_altitude"
    /\ mock.at < 0
    /\ verdict.by = "validate_pressure"
    /\ verdict.res.ok

\* C14: the service operations share no mutable state: with several
\* callers working at once on their own records and sequences, every call
\* returns what the operation returns on the caller's argument when run
\* alone, and a step of one caller changes nothing another caller owns.
C14_NoSharedState ==
    [][/\ \A c \in Callers :
             pending'[c] = pending[c] /\ result'[c] = result[c]
                => owned'[c] = owned[c]
       /\ \A c \in Callers :
             result'[c] # NoResult
                => result'[c].res = Apply(result'[c].op, result'[c].arg)
       /\ \A c \in Callers :
             /\ owned'[c].networks \in
                   {owned[c].networks,
                    SortedPrefix(owned[c].networks, pending'[c].at)}
             /\ [owned'[c] EXCEPT !.networks = <<>>]
                   = [owned[c] EXCEPT !.networks = <<>>]]_vars

C14_Witness ==
    /\ pending[1].op = "sort_wifi_by_signal"
    /\ pending[1].at = 3
    /\ owned[1].networks # pending[1].arg
    /\ pending[2].op = "get_signal_description"
    /\ pending[2].arg = owned[2].networks[1].signal_strength
    /\ owned[2].networks = sort_wifi_by_signal(OwnedBy(2, 0).networks)
    /\ result[2] = NoResult

====
